---- MODULE Spec2Model ----
(***************************************************************************)
(* Model of json_parsing_exercise/exercise.py: the validation of a raw     *)
(* Instagram record (InstagramData, Comment) and the activity aggregation  *)
(* engine (ActivityAggregator).                                            *)
(*                                                                         *)
(* A Python str is a sequence of one-character strings, a calendar date a  *)
(* record [year, month, day], a polars DataFrame a sequence of row         *)
(* records, and a JSON array / object a record tagged with its kind.       *)
(***************************************************************************)
EXTENDS Integers, Sequences, FiniteSets, TLC

VARIABLES
    pc,               \* position of the script: "raw", "validated", "ready", "failed"
    raw,              \* the decoded JSON record handed to model_validate
    outcome,          \* how model_validate ended: "none", "ok" or the exception's name
    ig_data,          \* the InstagramData instance (None until validated)
    daily_data_df,    \* ActivityAggregator.daily_data_df
    monthly_data_df   \* ActivityAggregator.monthly_data_df (Optional)

vars == <<pc, raw, outcome, ig_data, daily_data_df, monthly_data_df>>

\* ------------------------------------------------------------------ bounds

\* Longest comments array of a raw record of the aggregation runs.
MaxComments == 2
\* Largest count of one comment event of the aggregation runs.
MaxCount == 2

\* ------------------------------------------------------- sequences helpers

RECURSIVE SumSeq(_)
\* Sum of a sequence of integers (polars' Expr.sum / Series.sum).
SumSeq(s) == IF s = <<>> THEN 0 ELSE Head(s) + SumSeq(Tail(s))

\* ---------------------------------------------------------------- calendar

\* datetime's leap years (proleptic Gregorian calendar).
IsLeap(y) == (y % 4 = 0) /\ ((y % 100 # 0) \/ (y % 400 = 0))

\* datetime's days of a month.
DaysInMonth(y, m) ==
    IF m = 2 THEN (IF IsLeap(y) THEN 29 ELSE 28)
    ELSE IF m \in {4, 6, 9, 11} THEN 30 ELSE 31

Date(y, m, d) == [year |-> y, month |-> m, day |-> d]

\* a < b on calendar dates.
DateLT(a, b) ==
    \/ a.year < b.year
    \/ a.year = b.year /\ a.month < b.month
    \/ a.year = b.year /\ a.month = b.month /\ a.day < b.day

DateLE(a, b) == a = b \/ DateLT(a, b)

\* The calendar day after d (interval "1d").
NextDay(d) ==
    IF d.day < DaysInMonth(d.year, d.month) THEN Date(d.year, d.month, d.day + 1)
    ELSE IF d.month < 12 THEN Date(d.year, d.month + 1, 1)
    ELSE Date(d.year + 1, 1, 1)

\* The first day of d's calendar month (truncation by "1mo").
TruncMonth(d) == Date(d.year, d.month, 1)

\* The first day of the calendar month after month start m (offset by "1mo").
NextMonth(m) ==
    IF m.month < 12 THEN Date(m.year, m.month + 1, 1) ELSE Date(m.year + 1, 1, 1)

\* ------------------------------------------------------------------ strptime

DigitChars == <<"0", "1", "2", "3", "4", "5", "6", "7", "8", "9">>

IsDigit(c) == \E i \in 1..10 : DigitChars[i] = c

\* int() of one digit character.
DigitVal(c) == (CHOOSE i \in 1..10 : DigitChars[i] = c) - 1

\* The directive %d: 3[0-1] | [1-2]\d | 0[1-9] | [1-9] | " "[1-9].
MatchesDay(f) ==
    \/ Len(f) = 2 /\ f[1] = "3" /\ f[2] \in {"0", "1"}
    \/ Len(f) = 2 /\ f[1] \in {"1", "2"} /\ IsDigit(f[2])
    \/ Len(f) = 2 /\ f[1] \in {"0", " "} /\ IsDigit(f[2]) /\ f[2] # "0"
    \/ Len(f) = 1 /\ IsDigit(f[1]) /\ f[1] # "0"

\* The directive %m: 1[0-2] | 0[1-9] | [1-9].
MatchesMonth(f) ==
    \/ Len(f) = 2 /\ f[1] = "1" /\ f[2] \in {"0", "1", "2"}
    \/ Len(f) = 2 /\ f[1] = "0" /\ IsDigit(f[2]) /\ f[2] # "0"
    \/ Len(f) = 1 /\ IsDigit(f[1]) /\ f[1] # "0"

\* The directive %y: \d\d.
MatchesYear(f) == Len(f) = 2 /\ IsDigit(f[1]) /\ IsDigit(f[2])

\* int() of a matched field of one or two characters (a leading blank counts 0).
FieldVal(f) ==
    IF Len(f) = 1 THEN DigitVal(f[1])
    ELSE (IF f[1] = " " THEN 0 ELSE 10 * DigitVal(f[1])) + DigitVal(f[2])

\* A %y that puts every two-digit year in the century 2000.
CenturyYearAlways2000(yy) == 2000 + yy

\* %y's century: "Open Group specification for strptime() states that a %y
\* value in the range of [00, 68] is in the century 2000, while [69,99] is in
\* the century 1900".
CenturyYear(yy) == IF yy <= 68 THEN 2000 + yy ELSE 1900 + yy

ParseError == [ok |-> FALSE]

\* datetime.strptime(v, "%d/%m/%y"): the three fields are what the two "/"
\* of the format delimit (no directive matches a "/"); the whole string must
\* be consumed; the date must exist.  ok = FALSE stands for ValueError.
strptime(v) ==
    LET slashes == {i \in 1..Len(v) : v[i] = "/"}
    IN  IF Cardinality(slashes) # 2 THEN ParseError
        ELSE
          LET p1 == CHOOSE i \in slashes : \A j \in slashes : i <= j
              p2 == CHOOSE i \in slashes : \A j \in slashes : j <= i
              fd == SubSeq(v, 1, p1 - 1)
              fm == SubSeq(v, p1 + 1, p2 - 1)
              fy == SubSeq(v, p2 + 1, Len(v))
          IN  IF ~(MatchesDay(fd) /\ MatchesMonth(fm) /\ MatchesYear(fy))
              THEN ParseError
              ELSE
                LET y == CenturyYear(FieldVal(fy))
                    m == FieldVal(fm)
                    d == FieldVal(fd)
                IN  IF d > DaysInMonth(y, m) THEN ParseError
                    ELSE [ok |-> TRUE, value |-> Date(y, m, d)]

\* ---------------------------------------------------------- validation

\* None.
None == [none |-> TRUE]

\* A JSON array and a JSON object of the decoded record.
List(xs) == [kind |-> "list", items |-> xs]
Dict(f) == [kind |-> "dict", fields |-> f]

CommentKeys == {"date", "user", "count"}

\* InstagramData.validate_day: TRUE iff no ValueError is raised.
validate_day(v) == 1 <= v /\ v <= 31

\* InstagramData.validate_dates and Comment.validate_dates: strptime, its
\* ValueError raised again as ValueError.
validate_dates(v) == strptime(v)

\* InstagramData.convert_comments (mode="before"): a list made of lists only
\* is rebuilt from each item's positions 0, 1 and 2; item[2] of a shorter list
\* raises IndexError, which is no ValueError and leaves model_validate as it
\* is; anything else goes on to List[Comment] unchanged.
convert_comments(v) ==
    IF \A i \in 1..Len(v) : v[i].kind = "list"
    THEN IF \E i \in 1..Len(v) : Len(v[i].items) < 3
         THEN [raised |-> "IndexError"]
         ELSE [raised |-> "none",
               value |-> [i \in 1..Len(v) |->
                            Dict([date  |-> v[i].items[1],
                                  user  |-> v[i].items[2],
                                  count |-> v[i].items[3]])]]
    ELSE [raised |-> "none", value |-> v]

\* Whether pydantic builds a Comment from e: e is a mapping holding the three
\* fields (further keys are ignored) and its date passes validate_dates.
CommentValid(e) ==
    /\ e.kind = "dict"
    /\ CommentKeys \subseteq DOMAIN e.fields
    /\ validate_dates(e.fields.date).ok

\* The Comment built from a valid e.
Comment(e) ==
    [date  |-> validate_dates(e.fields.date).value,
     user  |-> e.fields.user,
     count |-> e.fields.count]

\* InstagramData.model_validate(r): the fields are validated in declaration
\* order and their errors collected into one ValidationError, raised at the
\* end; an exception of a validator that is neither ValueError nor
\* AssertionError is raised at once.
model_validate(r) ==
    LET conv == convert_comments(r.comments)
    IN  IF conv.raised # "none" THEN [outcome |-> conv.raised, value |-> None]
        ELSE IF /\ validate_dates(r.periodStart).ok
                /\ validate_dates(r.periodEnd).ok
                /\ validate_day(r.monthlyPostingDay)
                /\ \A i \in 1..Len(conv.value) : CommentValid(conv.value[i])
        THEN [outcome |-> "ok",
              value |-> [periodStart       |-> validate_dates(r.periodStart).value,
                         periodEnd         |-> validate_dates(r.periodEnd).value,
                         monthlyPostingDay |-> r.monthlyPostingDay,
                         comments          |-> [i \in 1..Len(conv.value) |->
                                                  Comment(conv.value[i])]]]
        ELSE [outcome |-> "ValidationError", value |-> None]

\* ---------------------------------------------------- ActivityAggregator

RECURSIVE date_range(_, _)
\* pl.date_range(start, end, eager=True): interval "1d", closed on both sides;
\* empty when end < start.
date_range(start, end) ==
    IF DateLT(end, start) THEN <<>>
    ELSE <<start>> \o date_range(NextDay(start), end)

\* A post_day column that flags the posting day and every later day of the month.
post_day_from(d, monthlyPostingDay) == IF d.day >= monthlyPostingDay THEN 1 ELSE 0

\* pl.when(pl.col("date").dt.day() == monthlyPostingDay).then(1).otherwise(0).
post_day(d, monthlyPostingDay) == IF d.day = monthlyPostingDay THEN 1 ELSE 0

\* A left join that keeps the first match of a left row only.
left_join_first(df, comments_df) ==
    [i \in 1..Len(df) |->
        LET date == df[i].date
            matches == SelectSeq(comments_df, LAMBDA c : c.date = date)
        IN  [date |-> date, post_day |-> df[i].post_day,
             num_comments |-> df[i].num_comments,
             count |-> IF matches = <<>> THEN 0 ELSE matches[1].count]]

RECURSIVE left_join(_, _)
\* df.join(comments_df, on="date", how="left").with_columns(
\* pl.col("count").fill_null(0)): every left row, in the left order, once per
\* right row of its date, and once with a null count (filled with 0) when no
\* right row has its date.  Right rows that match no left row are dropped.
left_join(df, comments_df) ==
    IF df = <<>> THEN <<>>
    ELSE
      LET l == Head(df)
          matches == SelectSeq(comments_df, LAMBDA c : c.date = l.date)
          joined ==
            IF matches = <<>>
            THEN << [date |-> l.date, post_day |-> l.post_day,
                     num_comments |-> l.num_comments, count |-> 0] >>
            ELSE [j \in 1..Len(matches) |->
                    [date |-> l.date, post_day |-> l.post_day,
                     num_comments |-> l.num_comments, count |-> matches[j].count]]
      IN  joined \o left_join(Tail(df), comments_df)

\* ActivityAggregator.initialise_daily_data.
initialise_daily_data(ig) ==
    LET dates == date_range(ig.periodStart, ig.periodEnd)
        df == [i \in 1..Len(dates) |->
                 [date |-> dates[i],
                  post_day |-> post_day(dates[i], ig.monthlyPostingDay),
                  num_comments |-> 0]]
        comments_df == [i \in 1..Len(ig.comments) |->
                          [date |-> ig.comments[i].date,
                           count |-> ig.comments[i].count]]
        joined == left_join(df, comments_df)
    IN  [i \in 1..Len(joined) |->
           [date |-> joined[i].date,
            post_day |-> joined[i].post_day,
            num_comments |-> joined[i].num_comments + joined[i].count]]

\* Whether the frame has the column total_activities.
HasTotals(df) == \A i \in 1..Len(df) : "total_activities" \in DOMAIN df[i]

\* A daily sum that adds to the column it finds.
calculate_daily_sums_accumulating(df) ==
    [i \in 1..Len(df) |->
        [date |-> df[i].date, post_day |-> df[i].post_day,
         num_comments |-> df[i].num_comments,
         total_activities |->
            (IF "total_activities" \in DOMAIN df[i] THEN df[i].total_activities ELSE 0)
            + df[i].post_day + df[i].num_comments]]

\* ActivityAggregator.calculate_daily_sums: with_columns adds the column
\* total_activities, or replaces it when the frame has it.
calculate_daily_sums(df) ==
    [i \in 1..Len(df) |->
        [date |-> df[i].date, post_day |-> df[i].post_day,
         num_comments |-> df[i].num_comments,
         total_activities |-> df[i].post_day + df[i].num_comments]]

RECURSIVE Windows(_, _)
\* The starts of group_by_dynamic's windows, every "1mo", from w to the window
\* of the last date.
Windows(w, last) ==
    IF DateLT(last, w) THEN <<>> ELSE <<w>> \o Windows(NextMonth(w), last)

\* A label that is the first date of the window's rows.
WindowLabelFirstRow(w, members) == members[1].date

\* group_by_dynamic's label="left": the window's lower boundary.
WindowLabel(w, members) == w

\* A window closed on both sides.
InWindowClosedBoth(w, date) == DateLE(w, date) /\ DateLE(date, NextMonth(w))

\* group_by_dynamic's closed="left", period = every = "1mo": lower boundary
\* <= date < upper boundary.
InWindow(w, date) == DateLE(w, date) /\ DateLT(date, NextMonth(w))

\* .agg([pl.col("post_day").sum().alias("num_posts"),
\* pl.col("num_comments").sum()]) and the rename of "date" to "month_date".
Aggregate(label, members) ==
    [month_date |-> label,
     num_posts |-> SumSeq([i \in 1..Len(members) |-> members[i].post_day]),
     num_comments |-> SumSeq([i \in 1..Len(members) |-> members[i].num_comments])]

RECURSIVE AggregateWindows(_, _)
\* One output row per window that holds a row of df; a window without rows
\* gives none.
AggregateWindows(ws, df) ==
    IF ws = <<>> THEN <<>>
    ELSE
      LET w == Head(ws)
          members == SelectSeq(df, LAMBDA r : InWindow(w, r.date))
      IN  (IF members = <<>> THEN <<>>
           ELSE << Aggregate(WindowLabel(w, members), members) >>)
          \o AggregateWindows(Tail(ws), df)

\* ActivityAggregator.calculate_monthly_aggregates: the frame is sorted by
\* date, the first window starts at the earliest date truncated to its month
\* (start_by="window").
calculate_monthly_aggregates(df) ==
    IF df = <<>> THEN <<>>
    ELSE AggregateWindows(Windows(TruncMonth(df[1].date), df[Len(df)].date), df)

\* ------------------------------------------------------------------ inputs

\* The text "DD/MM/YY" of a day, a month and a two-digit year, as the tests
\* write it.
FormatDate(d, m, yy) ==
    << DigitChars[(d \div 10) + 1], DigitChars[(d % 10) + 1], "/",
       DigitChars[(m \div 10) + 1], DigitChars[(m % 10) + 1], "/",
       DigitChars[(yy \div 10) + 1], DigitChars[(yy % 10) + 1] >>

\* All sequences over S of length at most n.
SeqsUpTo(S, n) == UNION {[1..k -> S] : k \in 0..n}

\* A comment as the fixed-order triple and as the object with named fields.
AsTriple(e) == List(e)
AsObject(e) == Dict([date |-> e[1], user |-> e[2], count |-> e[3]])

\* Raw records of the aggregation runs: periods from the end of December 2020
\* to the start of March 2021 (some starting or ending inside a month, some
\* with periodEnd before periodStart), posting days that exist in every month
\* or not in February, comments before, inside and after the period.
PeriodStarts == {FormatDate(30, 12, 20), FormatDate(1, 2, 21), FormatDate(28, 2, 21)}
PeriodEnds == {FormatDate(31, 1, 21), FormatDate(28, 2, 21), FormatDate(2, 3, 21)}
PostingDays == {1, 28, 31}
CommentDates == {FormatDate(31, 1, 21), FormatDate(1, 2, 21), FormatDate(15, 3, 21)}
Users == {"X"}
CommentEvents == CommentDates \X Users \X (1..MaxCount)
CommentArrays ==
    {[i \in DOMAIN s |-> AsTriple(s[i])] : s \in SeqsUpTo(CommentEvents, MaxComments)}
    \cup {[i \in DOMAIN s |-> AsObject(s[i])] : s \in SeqsUpTo(CommentEvents, MaxComments)}

\* Raw records of the validation runs: every two-digit year, dates that exist
\* in leap years only or never, texts in other formats, posting days around
\* both ends of [1, 31], and comments arrays of every shape.
ValidateStarts ==
    {FormatDate(d, m, yy) : d \in {1, 29}, m \in {2, 12}, yy \in 0..99}
    \cup {FormatDate(31, 2, 21)}
ValidateEnds ==
    { FormatDate(31, 12, 68), FormatDate(1, 1, 69),
      <<"2", "/", "3", "/", "2", "1">>,
      <<"2", "0", "2", "1", "-", "0", "3", "-", "1", "1">> }
ValidateDays == {0, 1, 31, 32}
Dec99 == FormatDate(31, 12, 99)
Mar21 == FormatDate(11, 3, 21)
ShapeCases ==
    { <<>>,
      << List(<<Dec99, "X", 5>>) >>,
      << Dict([date |-> Mar21, user |-> "Y", count |-> 6]) >>,
      << Dict([date |-> Mar21, user |-> "Y", count |-> 6, likes |-> 1]) >>,
      << List(<<Mar21, "X", 5>>), List(<<Dec99, "Y", 6>>) >>,
      << List(<<Mar21, "X", 5, "extra">>) >>,
      << List(<<Mar21, "X">>) >>,
      << List(<<>>) >>,
      << List(<<Mar21, "X", 5>>), List(<<Mar21, "Y">>) >>,
      << List(<<Mar21, "X", 5>>), Dict([date |-> Mar21, user |-> "Y", count |-> 6]) >>,
      << Dict([date |-> Mar21, user |-> "Y"]) >>,
      << List(<<FormatDate(31, 2, 21), "X", 5>>) >> }

\* ----------------------------------------------------------------- actions

\* Some(x): an Optional that is set.
Some(x) == [none |-> FALSE, value |-> x]

\* The aggregation runs.
Init ==
    /\ raw \in [periodStart : PeriodStarts, periodEnd : PeriodEnds,
                monthlyPostingDay : PostingDays, comments : CommentArrays]
    /\ pc = "raw"
    /\ outcome = "none"
    /\ ig_data = None
    /\ daily_data_df = <<>>
    /\ monthly_data_df = None

\* The validation runs.
InitValidate ==
    /\ raw \in [periodStart : ValidateStarts, periodEnd : ValidateEnds,
                monthlyPostingDay : ValidateDays, comments : ShapeCases]
    /\ pc = "raw"
    /\ outcome = "none"
    /\ ig_data = None
    /\ daily_data_df = <<>>
    /\ monthly_data_df = None

\* data = InstagramData.model_validate(raw_ig_dict).
ModelValidate ==
    /\ pc = "raw"
    /\ LET res == model_validate(raw)
       IN  /\ outcome' = res.outcome
           /\ ig_data' = res.value
           /\ pc' = IF res.outcome = "ok" THEN "validated" ELSE "failed"
    /\ UNCHANGED <<raw, daily_data_df, monthly_data_df>>

\* ig_aggregator = ActivityAggregator(data).
Construct ==
    /\ pc = "validated"
    /\ daily_data_df' = initialise_daily_data(ig_data)
    /\ monthly_data_df' = None
    /\ pc' = "ready"
    /\ UNCHANGED <<raw, outcome, ig_data>>

\* ig_aggregator.calculate_daily_sums().
CalculateDailySums ==
    /\ pc = "ready"
    /\ daily_data_df' = calculate_daily_sums(daily_data_df)
    /\ UNCHANGED <<pc, raw, outcome, ig_data, monthly_data_df>>

\* ig_aggregator.calculate_monthly_aggregates().
CalculateMonthlyAggregates ==
    /\ pc = "ready"
    /\ monthly_data_df' = Some(calculate_monthly_aggregates(daily_data_df))
    /\ UNCHANGED <<pc, raw, outcome, ig_data, daily_data_df>>

Next ==
    \/ ModelValidate
    \/ Construct
    \/ CalculateDailySums
    \/ CalculateMonthlyAggregates

Spec == Init /\ [][Next]_vars

NextValidate == ModelValidate

SpecValidate == InitValidate /\ [][NextValidate]_vars

\* ------------------------------------------------------------------ claims

\* date.toordinal(): the days from 01/01/0001 to d, both counted.
ToOrdinal(d) ==
    LET y == d.year - 1
    IN  365 * y + (y \div 4) - (y \div 100) + (y \div 400)
        + SumSeq([m \in 1..(d.month - 1) |-> DaysInMonth(d.year, m)]) + d.day

\* The calendar dates of [periodStart, periodEnd], as a set.
PeriodDates == {d \in [year : {ig_data.periodStart.year, ig_data.periodEnd.year},
                       month : 1..12, day : 1..31] :
                  /\ d.day <= DaysInMonth(d.year, d.month)
                  /\ DateLE(ig_data.periodStart, d)
                  /\ DateLE(d, ig_data.periodEnd)}

\* The comment events of ig_data that satisfy Test, order kept.
CountsWhere(Test(_)) ==
    LET cs == SelectSeq(ig_data.comments, Test)
    IN  [i \in 1..Len(cs) |-> cs[i].count]

Column(df, name) == [i \in 1..Len(df) |-> df[i][name]]

Ready == pc = "ready"
MonthlyDone == pc = "ready" /\ ~monthly_data_df.none
Monthly == monthly_data_df.value

\* C1: for a period with periodStart <= periodEnd, the daily calendar holds
\* exactly one row per calendar date of [periodStart, periodEnd], in strictly
\* ascending date order, so (periodEnd - periodStart).days + 1 rows.
C1_OneRowPerDate ==
    (Ready /\ DateLE(ig_data.periodStart, ig_data.periodEnd)) =>
        /\ Len(daily_data_df)
             = ToOrdinal(ig_data.periodEnd) - ToOrdinal(ig_data.periodStart) + 1
        /\ \A i \in 1..(Len(daily_data_df) - 1) :
             DateLT(daily_data_df[i].date, daily_data_df[i + 1].date)
        /\ \A d \in PeriodDates :
             Cardinality({i \in 1..Len(daily_data_df) : daily_data_df[i].date = d}) = 1

\* C2: the num_comments of the row of date d is the sum of count over all
\* comment events dated d, and 0 when there is none.
C2_RowHoldsSumOfItsDate ==
    Ready =>
        \A i \in 1..Len(daily_data_df) :
            daily_data_df[i].num_comments
              = SumSeq(CountsWhere(LAMBDA c : c.date = daily_data_df[i].date))

\* C3: the num_comments of all daily rows sum to the counts of the comment
\* events dated inside [periodStart, periodEnd]; a comment dated outside
\* adds nothing and no row.
C3_CommentsInsidePeriodAreConserved ==
    Ready =>
        /\ SumSeq(Column(daily_data_df, "num_comments"))
             = SumSeq(CountsWhere(LAMBDA c : /\ DateLE(ig_data.periodStart, c.date)
                                             /\ DateLE(c.date, ig_data.periodEnd)))
        /\ \A i \in 1..Len(daily_data_df) :
             /\ DateLE(ig_data.periodStart, daily_data_df[i].date)
             /\ DateLE(daily_data_df[i].date, ig_data.periodEnd)

\* C3's case: a comment inside the period and one outside it.
C3_Witness ==
    /\ Ready
    /\ SumSeq(Column(daily_data_df, "num_comments")) > 0
    /\ \E i \in 1..Len(ig_data.comments) :
         DateLT(ig_data.periodEnd, ig_data.comments[i].date)
    /\ \E i \in 1..Len(ig_data.comments) :
         /\ DateLE(ig_data.periodStart, ig_data.comments[i].date)
         /\ DateLE(ig_data.comments[i].date, ig_data.periodEnd)

\* C4: post_day of a daily row is 1 if the day-of-month of its date is
\* monthlyPostingDay and 0 otherwise.
C4_PostDayIffPostingDay ==
    Ready =>
        \A i \in 1..Len(daily_data_df) :
            /\ daily_data_df[i].post_day \in {0, 1}
            /\ daily_data_df[i].post_day = 1
                 <=> daily_data_df[i].date.day = ig_data.monthlyPostingDay

\* C4's case: the posting day is the 31st, January's 31st is flagged and no
\* row of February is.
C4_Witness ==
    /\ Ready
    /\ ig_data.monthlyPostingDay = 31
    /\ \E i \in 1..Len(daily_data_df) : daily_data_df[i].post_day = 1
    /\ \E i \in 1..Len(daily_data_df) : daily_data_df[i].date.month = 2
    /\ \A i \in 1..Len(daily_data_df) :
         daily_data_df[i].date.month = 2 => daily_data_df[i].post_day = 0

\* C5: every month with a day in the period has a monthly row, and the
\* num_posts of a monthly row is the number of calendar days of its month
\* inside the period whose day-of-month is monthlyPostingDay.
C5_MonthlyPostsCountPostingDays ==
    MonthlyDone =>
        /\ \A d \in PeriodDates :
             \E k \in 1..Len(Monthly) : Monthly[k].month_date = TruncMonth(d)
        /\ \A k \in 1..Len(Monthly) :
             Monthly[k].num_posts
               = Cardinality({d \in PeriodDates :
                                /\ TruncMonth(d) = Monthly[k].month_date
                                /\ d.day = ig_data.monthlyPostingDay})

\* What calculate_daily_sums makes of the frame df: total_activities =
\* post_day + num_comments in every row, the other columns and the number of
\* rows as they were.
IsDailySumsOf(after, df) ==
    /\ Len(after) = Len(df)
    /\ \A i \in 1..Len(df) :
         /\ after[i].date = df[i].date
         /\ after[i].post_day = df[i].post_day
         /\ after[i].num_comments = df[i].num_comments
         /\ after[i].total_activities = df[i].post_day + df[i].num_comments

\* C6: a call of calculate_daily_sums on the aggregator's frame leaves
\* total_activities = post_day + num_comments in every row and changes no
\* other column and no row count, and a further call changes nothing: every
\* step that changes the frame is such a first call, on a frame without the
\* column.
C6_DailySumsIdempotent ==
    /\ [](Ready =>
            LET once == calculate_daily_sums(daily_data_df)
            IN  /\ IsDailySumsOf(once, daily_data_df)
                /\ calculate_daily_sums(once) = once)
    /\ [][(pc = "ready" /\ pc' = "ready" /\ daily_data_df' # daily_data_df) =>
            /\ \A i \in 1..Len(daily_data_df) :
                 "total_activities" \notin DOMAIN daily_data_df[i]
            /\ IsDailySumsOf(daily_data_df', daily_data_df)]_vars

\* C6's case: the daily sums are computed, and some are not 0.
C6_Witness ==
    /\ Ready
    /\ daily_data_df # <<>>
    /\ HasTotals(daily_data_df)
    /\ SumSeq(Column(daily_data_df, "total_activities")) > 1
    /\ calculate_daily_sums(daily_data_df) = daily_data_df

\* C7: num_posts over all monthly rows sums to post_day over all daily rows,
\* and num_comments over all monthly rows to num_comments over all daily rows.
C7_MonthlyConservesDaily ==
    MonthlyDone =>
        /\ SumSeq(Column(Monthly, "num_posts"))
             = SumSeq(Column(daily_data_df, "post_day"))
        /\ SumSeq(Column(Monthly, "num_comments"))
             = SumSeq(Column(daily_data_df, "num_comments"))

\* C7's case: several months, posts and comments in the calendar.
C7_Witness ==
    /\ MonthlyDone
    /\ Len(Monthly) >= 2
    /\ SumSeq(Column(Monthly, "num_posts")) >= 2
    /\ SumSeq(Column(Monthly, "num_comments")) >= 2

\* C8: the monthly rows are, in strictly ascending order, the first days of
\* exactly the calendar months that hold a date of the daily calendar.
C8_OneRowPerSpannedMonth ==
    MonthlyDone =>
        /\ \A i \in 1..Len(daily_data_df) :
             Cardinality({k \in 1..Len(Monthly) :
                            Monthly[k].month_date = TruncMonth(daily_data_df[i].date)}) = 1
        /\ \A k \in 1..Len(Monthly) :
             /\ Monthly[k].month_date.day = 1
             /\ \E i \in 1..Len(daily_data_df) :
                  TruncMonth(daily_data_df[i].date) = Monthly[k].month_date
        /\ \A k \in 1..(Len(Monthly) - 1) :
             DateLT(Monthly[k].month_date, Monthly[k + 1].month_date)

\* C8's case: a period that starts on the last day of a month and ends in
\* the next: the month with one day in range has its row.
C8_Witness ==
    /\ MonthlyDone
    /\ Len(Monthly) = 2
    /\ ig_data.periodStart.day # 1
    /\ Cardinality({i \in 1..Len(daily_data_df) :
                      TruncMonth(daily_data_df[i].date) = Monthly[1].month_date}) = 1

\* Whether the text v has the form DD/MM/YY, and its three numbers read at
\* their fixed places.
IsDDMMYY(v) ==
    /\ Len(v) = 8
    /\ v[3] = "/" /\ v[6] = "/"
    /\ \A i \in {1, 2, 4, 5, 7, 8} : IsDigit(v[i])
DD(v) == 10 * DigitVal(v[1]) + DigitVal(v[2])
MM(v) == 10 * DigitVal(v[4]) + DigitVal(v[5])
YY(v) == 10 * DigitVal(v[7]) + DigitVal(v[8])

\* The date text of a raw comment, in either form.
RawCommentDate(e) == IF e.kind = "list" THEN e.items[1] ELSE e.fields.date

\* Whether every DD/MM/YY text of the accepted record was parsed to the date
\* of day DD, month MM and year Year(YY).
ParsedWithYear(Year(_)) ==
    LET Expected(v) == Date(Year(YY(v)), MM(v), DD(v))
    IN  /\ IsDDMMYY(raw.periodStart)
          => ig_data.periodStart = Expected(raw.periodStart)
        /\ IsDDMMYY(raw.periodEnd)
          => ig_data.periodEnd = Expected(raw.periodEnd)
        /\ \A i \in 1..Len(raw.comments) :
             IsDDMMYY(RawCommentDate(raw.comments[i]))
               => ig_data.comments[i].date = Expected(RawCommentDate(raw.comments[i]))

\* C9 (as claimed): every accepted DD/MM/YY text is parsed to day DD, month MM
\* and year 2000 + YY, for every YY of 00..99.
C9_YearIs2000PlusYY ==
    outcome = "ok" => ParsedWithYear(LAMBDA yy : 2000 + yy)

\* C9 (amended): every accepted DD/MM/YY text is parsed to day DD, month MM and
\* year 2000 + YY for YY of 00..68, 1900 + YY for YY of 69..99.
C9_YearFollowsPivot ==
    outcome = "ok" =>
        ParsedWithYear(LAMBDA yy : IF yy \in 0..68 THEN 2000 + yy ELSE 1900 + yy)

\* C9's case: accepted dates on both sides of the pivot.
C9_Witness ==
    /\ outcome = "ok"
    /\ IsDDMMYY(raw.periodStart) /\ YY(raw.periodStart) = 68
    /\ ig_data.periodStart.year = 2068
    /\ IsDDMMYY(raw.periodEnd) /\ YY(raw.periodEnd) = 69
    /\ ig_data.periodEnd.year = 1969
    /\ Len(raw.comments) = 2

\* Whether a raw comment is neither a triple nor an object with the named
\* fields.
Malformed(e) ==
    /\ ~(e.kind = "list" /\ Len(e.items) = 3)
    /\ ~(e.kind = "dict" /\ CommentKeys \subseteq DOMAIN e.fields)

\* C10: a record whose comments array holds a malformed element ends in a
\* ValidationError, with no InstagramData built.
C10_MalformedCommentFailsValidation ==
    (pc # "raw" /\ \E i \in 1..Len(raw.comments) : Malformed(raw.comments[i])) =>
        /\ outcome = "ValidationError"
        /\ ig_data = None

====
